---- MODULE Spec2Model ----
(***************************************************************************)
(* Word Wizard (src/app.py): the appendix registry kept by the main        *)
(* window, the page-range parser, and the assembly worker thread that      *)
(* converts, merges and writes the final document.                         *)
(*                                                                         *)
(* Text is modelled as a sequence of one-character strings, so that        *)
(* str.split, str.strip and int() are computed character by character.     *)
(* An Optional value is a sequence of length at most one: None is <<>>     *)
(* and a present value v is <<v>>.  List positions are zero-based, as in   *)
(* the source; At(list, i) reads position i.                               *)
(***************************************************************************)
EXTENDS Integers, Sequences, FiniteSets, TLC

(***************************************************************************)
(* Bounds of the model.                                                    *)
(***************************************************************************)
\* longest appendix list built while one assembly runs at a time
MaxAppendices == 2
\* longest appendix list built while assemblies may run side by side
MaxConcurrentAppendices == 1
\* longest appendix list built when only the registry is edited
MaxRegistryAppendices == 2
\* longest appendix list handed to the removal on its own
MaxRemoveLen == 3
\* longest appendix list handed to the moves on their own
MaxMoveLen == 3
\* largest page number written in a generated range expression
MaxNum == 3
\* longest appendix list when the wider page-range inputs meet an assembly
MaxRangedAppendices == 1
\* longest appendix list when adding is looked at on its own
MaxAddLen == 3
\* files picked in one Add dialog, when adding is looked at on its own
MaxPicked == 3
\* largest number of comma-separated tokens in a generated expression
MaxTokens == 2

(***************************************************************************)
(* Optional values and zero-based indexing.                                *)
(***************************************************************************)
None == <<>>
Some(v) == <<v>>
At(list, i) == list[i + 1]
Indices(list) == 0 .. (Len(list) - 1)

(***************************************************************************)
(* Python text primitives used by the parser and the handlers.             *)
(***************************************************************************)
DigitChars == <<"0", "1", "2", "3", "4", "5", "6", "7", "8", "9">>

IsDigit(c) == \E d \in 1..10 : DigitChars[d] = c

DigitValue(c) == (CHOOSE d \in 1..10 : DigitChars[d] = c) - 1

\* str.strip(): drop leading and trailing whitespace
RECURSIVE lstrip(_)
lstrip(s) == IF s # <<>> /\ Head(s) = " " THEN lstrip(Tail(s)) ELSE s

RECURSIVE rstrip(_)
rstrip(s) ==
    IF s # <<>> /\ s[Len(s)] = " " THEN rstrip(SubSeq(s, 1, Len(s) - 1)) ELSE s

strip(s) == rstrip(lstrip(s))

\* str.split(sep): the pieces between occurrences of sep, empty pieces kept
RECURSIVE split(_, _)
split(s, sep) ==
    IF \A k \in 1..Len(s) : s[k] # sep
    THEN <<s>>
    ELSE LET k == CHOOSE j \in 1..Len(s) :
                      s[j] = sep /\ \A h \in 1..(j - 1) : s[h] # sep
         IN  <<SubSeq(s, 1, k - 1)>> \o split(SubSeq(s, k + 1, Len(s)), sep)

\* int(s) raises ValueError unless s, stripped, is a non-empty digit string
int_raises(s) ==
    LET t == strip(s)
    IN  t = <<>> \/ \E k \in 1..Len(t) : ~IsDigit(t[k])

RECURSIVE DecimalValue(_)
DecimalValue(t) ==
    IF t = <<>> THEN 0
    ELSE 10 * DecimalValue(SubSeq(t, 1, Len(t) - 1)) + DigitValue(t[Len(t)])

int(s) == DecimalValue(strip(s))

\* sorted(set): the elements in ascending order
RECURSIVE sorted(_)
sorted(S) ==
    IF S = {} THEN <<>>
    ELSE LET m == CHOOSE v \in S : \A u \in S : v <= u
         IN  <<m>> \o sorted(S \ {m})

(***************************************************************************)
(* _parse_page_range.  PartPages gives the one-based pages of one          *)
(* stripped part, or None when the part raises ValueError.                 *)
(***************************************************************************)
\* PartPages with a reversed range silently put in order
PartPages_swapping(part, max_pages) ==
    IF \E k \in 1..Len(part) : part[k] = "-"
    THEN LET pieces == split(part, "-")
         IN  IF Len(pieces) # 2 THEN None
             ELSE IF int_raises(pieces[1]) \/ int_raises(pieces[2]) THEN None
             ELSE LET start == int(pieces[1])
                      end   == int(pieces[2])
                      low   == IF start <= end THEN start ELSE end
                      high  == IF start <= end THEN end ELSE start
                  IN  IF ~(1 <= low /\ high <= max_pages)
                      THEN None
                      ELSE Some(low .. high)
    ELSE IF int_raises(part) THEN None
         ELSE LET page == int(part)
              IN  IF ~(1 <= page /\ page <= max_pages) THEN None
                  ELSE Some({page})

\* PartPages with range(start, end) in place of range(start, end + 1)
PartPages_open_end(part, max_pages) ==
    IF \E k \in 1..Len(part) : part[k] = "-"
    THEN LET pieces == split(part, "-")
         IN  IF Len(pieces) # 2 THEN None
             ELSE IF int_raises(pieces[1]) \/ int_raises(pieces[2]) THEN None
             ELSE LET start == int(pieces[1])
                      end   == int(pieces[2])
                  IN  IF ~(1 <= start /\ start <= end /\ end <= max_pages)
                      THEN None
                      ELSE Some(start .. (end - 1))
    ELSE IF int_raises(part) THEN None
         ELSE LET page == int(part)
              IN  IF ~(1 <= page /\ page <= max_pages) THEN None
                  ELSE Some({page})

PartPages(part, max_pages) ==
    IF \E k \in 1..Len(part) : part[k] = "-"
    THEN LET pieces == split(part, "-")
         IN  IF Len(pieces) # 2 THEN None
             ELSE IF int_raises(pieces[1]) \/ int_raises(pieces[2]) THEN None
             ELSE LET start == int(pieces[1])
                      end   == int(pieces[2])
                  IN  IF ~(1 <= start /\ start <= end /\ end <= max_pages)
                      THEN None
                      ELSE Some(start .. end)
    ELSE IF int_raises(part) THEN None
         ELSE LET page == int(part)
              IN  IF ~(1 <= page /\ page <= max_pages) THEN None
                  ELSE Some({page})

\* _parse_page_range failing when no page was collected
_parse_page_range_needing_pages(range_str, max_pages) ==
    LET parts == IF range_str = None THEN <<>> ELSE split(range_str[1], ",")
        stripped == [k \in 1..Len(parts) |-> strip(parts[k])]
        used == {k \in 1..Len(parts) : stripped[k] # <<>>}
    IN  IF used = {} \/ \E k \in used : PartPages(stripped[k], max_pages) = None
        THEN None
        ELSE LET pages_to_include ==
                     UNION {PartPages(stripped[k], max_pages)[1] : k \in used}
             IN  Some(sorted({p - 1 : p \in pages_to_include}))

_parse_page_range(range_str, max_pages) ==
    IF range_str = None \/ range_str = Some(<<>>)
    THEN Some(<<>>)
    ELSE LET parts == split(range_str[1], ",")
             stripped == [k \in 1..Len(parts) |-> strip(parts[k])]
             used == {k \in 1..Len(parts) : stripped[k] # <<>>}
         IN  IF \E k \in used : PartPages(stripped[k], max_pages) = None
             THEN None
             ELSE LET pages_to_include ==
                          UNION {PartPages(stripped[k], max_pages)[1] : k \in used}
                  IN  Some(sorted({p - 1 : p \in pages_to_include}))

(***************************************************************************)
(* Inputs the environment can supply.                                      *)
(***************************************************************************)
\* documents Word can have open (get_live_word_document)
Docs == {"report.docx"}
\* PDF files the user can pick in the Add dialog
Paths == {"a.pdf"}
\* page counts PdfReader can report when a picked file is added
PageCounts == {2}
\* page counts PdfReader can report when the file is read again at merge time
MergeCounts == {1, 2}
\* one picked file: its path and what reading it gives (None: it raises)
FileReads == [path : Paths, pages : {None} \cup {Some(n) : n \in PageCounts}]
\* what askopenfilenames returns, with the result of reading each file
AddInputs == {<<>>} \cup {<<f>> : f \in FileReads}
\* what the rename dialog returns (None: dismissed)
TitleInputs == {None, Some(<<" ">>)}
\* what the page-range dialog returns (None: dismissed)
RangeInputs == {None, Some(<<>>), Some(<<" ">>), Some(<<"2">>), Some(<<"3">>)}
\* the same inputs, wider, for editing the registry with no assembly running
RegistryFileReads ==
    [path : {"a.pdf", "b.pdf"}, pages : {None, Some(2)}]
RegistryAddInputs ==
    {<<>>} \cup {<<f>> : f \in RegistryFileReads}
           \cup {<<f, g>> : f \in RegistryFileReads, g \in RegistryFileReads}
RegistryTitleInputs == {None, Some(<<>>), Some(<<" ">>), Some(<<"T">>)}
RegistryRangeInputs ==
    {None, Some(<<" ">>), Some(<<" ", "2">>), Some(<<"2", "-", "1">>),
     Some(<<",">>), Some(<<"x">>)}
\* what asksaveasfilename returns ("" when dismissed)
SavePaths == {"", "out.pdf"}
\* the same inputs for adding alone: a file of one page, a file of two
\* pages and a file that cannot be read
AddFileReads ==
    {[path |-> "a.pdf", pages |-> Some(2)],
     [path |-> "b.pdf", pages |-> Some(1)],
     [path |-> "c.pdf", pages |-> None]}
\* worker threads that can exist at the same time
Threads == {1, 2}

(***************************************************************************)
(* State.                                                                  *)
(***************************************************************************)
VARIABLES
    IS_WINDOWS,        \* the platform flag, fixed at start-up
    word_doc_path,     \* Optional path of the connected Word document
    appendix_list,     \* the registry: a sequence of entries
    curselection,      \* selected positions of appendix_listbox
    connect_btn, add_pdf_btn, remove_btn, configure_btn,
    move_up_btn, move_down_btn, generate_btn,    \* widget states
    after_queue,       \* callbacks scheduled with self.after(0, ...)
    thread,            \* the frame of each worker thread
    tokens, arg_range_str, arg_max_pages, parse_result    \* a stand-alone parser call

registry_vars == <<word_doc_path, appendix_list, curselection>>
button_vars == <<connect_btn, add_pdf_btn, remove_btn, configure_btn,
                 move_up_btn, move_down_btn, generate_btn>>
parser_vars == <<tokens, arg_range_str, arg_max_pages, parse_result>>
vars == <<IS_WINDOWS, registry_vars, button_vars, after_queue, thread,
          parser_vars>>

(***************************************************************************)
(* Registry entries and labels.                                            *)
(***************************************************************************)
UpperCase == <<"A", "B", "C", "D", "E", "F", "G", "H", "I", "J", "K", "L", "M",
               "N", "O", "P", "Q", "R", "S", "T", "U", "V", "W", "X", "Y", "Z">>

\* chr(n) for the codes of the capital letters
chr(n) == UpperCase[n - 64]

AppendixPrefix == <<"A", "p", "p", "e", "n", "d", "i", "x", " ">>

\* f"Appendix {chr(65 + i)}"
DefaultLabel(i) == AppendixPrefix \o <<chr(65 + i)>>

Entry(default_label, custom_title, path, page_count, page_range) ==
    [default_label |-> default_label, custom_title |-> custom_title,
     path |-> path, page_count |-> page_count, page_range |-> page_range]

\* _refresh_appendix_listbox with the labels left as they were
_refresh_appendix_listbox_keeping_labels(list) == list

\* _refresh_appendix_listbox setting the custom title back to the new label
_refresh_appendix_listbox_resetting_titles(list) ==
    [k \in 1..Len(list) |-> [list[k] EXCEPT !.default_label = DefaultLabel(k - 1),
                                            !.custom_title = DefaultLabel(k - 1)]]

\* _refresh_appendix_listbox: every entry gets the label of its position
_refresh_appendix_listbox(list) ==
    [k \in 1..Len(list) |-> [list[k] EXCEPT !.default_label = DefaultLabel(k - 1)]]

\* the loop of _add_pdfs with the label taken from the length of the list
\* before the dialog, the same for every file picked together
RECURSIVE AppendPdfs_labelling_by_batch(_, _)
AppendPdfs_labelling_by_batch(list, file_reads) ==
    IF file_reads = <<>> THEN list
    ELSE LET f == file_reads[Len(file_reads)]
             rest == AppendPdfs_labelling_by_batch(
                         list, SubSeq(file_reads, 1, Len(file_reads) - 1))
             default_label == DefaultLabel(Len(list))
         IN  IF f.pages = None THEN rest
             ELSE Append(rest, Entry(default_label, default_label,
                                     f.path, f.pages[1], None))

\* the loop of _add_pdfs: readable files are appended, the others skipped
RECURSIVE AppendPdfs(_, _)
AppendPdfs(list, file_reads) ==
    IF file_reads = <<>> THEN list
    ELSE LET f == Head(file_reads)
             default_label == DefaultLabel(Len(list))
             next == IF f.pages = None THEN list
                     ELSE Append(list, Entry(default_label, default_label,
                                             f.path, f.pages[1], None))
         IN  AppendPdfs(next, Tail(file_reads))

\* del list[index]
Del(list, index) == SubSeq(list, 1, index) \o SubSeq(list, index + 2, Len(list))

\* sorted(S, reverse=True)
RECURSIVE sorted_reverse(_)
sorted_reverse(S) ==
    IF S = {} THEN <<>>
    ELSE LET m == CHOOSE v \in S : \A u \in S : u <= v
         IN  <<m>> \o sorted_reverse(S \ {m})

\* the body of the deletion loop, run for each index in order
RECURSIVE DeleteSelected(_, _)
DeleteSelected(list, order) ==
    IF order = <<>> THEN list
    ELSE DeleteSelected(Del(list, Head(order)), Tail(order))

\* the deletion loop of _remove_selected with the indices in ascending order
RemoveSelected_ascending(list, selected_indices) ==
    DeleteSelected(list, sorted(selected_indices))

\* the deletion loop of _remove_selected
RemoveSelected(list, selected_indices) ==
    DeleteSelected(list, sorted_reverse(selected_indices))

\* list.pop(idx) followed by list.insert(0, item)
PopInsert_to_front(list, idx, new_idx) ==
    <<At(list, idx)>> \o SubSeq(list, 1, idx) \o SubSeq(list, idx + 2, Len(list))

\* list.pop(idx) followed by list.insert(new_idx, item)
PopInsert(list, idx, new_idx) ==
    LET item == At(list, idx)
        rest == SubSeq(list, 1, idx) \o SubSeq(list, idx + 2, Len(list))
    IN  SubSeq(rest, 1, new_idx) \o <<item>> \o SubSeq(rest, new_idx + 1, Len(rest))

Min(a, b) == IF a <= b THEN a ELSE b
SmallestOf(S) == CHOOSE v \in S : \A u \in S : v <= u

(***************************************************************************)
(* Widget states.                                                          *)
(***************************************************************************)
\* _update_generate_button_state looking at the document alone
GenerateState_document_only(doc, list) ==
    IF doc # None THEN "normal" ELSE "disabled"

\* _update_generate_button_state, for the given document and list
GenerateState(doc, list) ==
    IF doc # None /\ list # <<>> THEN "normal" ELSE "disabled"

\* _update_control_button_states, for the given selection
_update_control_button_states(selected_indices) ==
    /\ remove_btn' = IF selected_indices = {} THEN "disabled" ELSE "normal"
    /\ configure_btn' =
           IF Cardinality(selected_indices) = 1 THEN "normal" ELSE "disabled"
    /\ move_up_btn' =
           IF Cardinality(selected_indices) = 1 THEN "normal" ELSE "disabled"
    /\ move_down_btn' =
           IF Cardinality(selected_indices) = 1 THEN "normal" ELSE "disabled"

control_btns == <<remove_btn, configure_btn, move_up_btn, move_down_btn>>

(***************************************************************************)
(* Callbacks handed to self.after(0, ...), run in order by the main loop.  *)
(***************************************************************************)
UpdateCallback(enabled) == [fn |-> "update", enabled |-> enabled, thread |-> 0]
PromptSaveCallback(t) == [fn |-> "prompt_save", enabled |-> FALSE, thread |-> t]
FinalizeUiCallback(t) == [fn |-> "finalize_ui", enabled |-> FALSE, thread |-> t]

(***************************************************************************)
(* Worker threads.  A frame holds the locals of _generate_document_worker  *)
(* and of the functions it calls.  The loops over self.appendix_list       *)
(* iterate the list object bound at loop entry: iter_list is that object   *)
(* and iter_live tells whether self.appendix_list still names it.  The     *)
(* frame of a finished thread is kept until its finalize_ui has run.       *)
(***************************************************************************)
IdleThread ==
    [pc |-> "idle", base |-> None, temp_files |-> {}, i |-> 0,
     iter_list |-> <<>>, iter_live |-> FALSE, heading_pdf_paths |-> <<>>,
     save_path_container |-> <<>>, writer |-> <<>>, output |-> None,
     outcome |-> "none", error |-> "none"]

InFlight(t) == thread[t].pc \notin {"idle", "done"}

TempFile(name, idx, ext) == [name |-> name, idx |-> idx, ext |-> ext]
BaseDocumentPdf == TempFile("base_document", 0, "pdf")

\* the pieces a PdfWriter is given
BaseSegment(doc) == [kind |-> "base", title |-> <<>>, path |-> doc, page |-> 0]
TitleSegment(h) == [kind |-> "title", title |-> h.title, path |-> h.path, page |-> 0]
DocumentSegment(path) == [kind |-> "doc", title |-> <<>>, path |-> path, page |-> 0]
PageSegment(path, k) == [kind |-> "page", title |-> <<>>, path |-> path, page |-> k]

\* A handler changes the list object in place (in_place) and then rebinds
\* self.appendix_list to the refreshed copy: a loop that was iterating the
\* old object sees the change in place and none after it.
Rebind(in_place) ==
    thread' = [t \in Threads |->
                 IF /\ thread[t].pc \in {"headings", "merge"}
                    /\ thread[t].i > 0
                    /\ thread[t].iter_live
                 THEN [thread[t] EXCEPT !.iter_list = in_place, !.iter_live = FALSE]
                 ELSE thread[t]]

(***************************************************************************)
(* Initial state: the window as __init__ and _create_widgets leave it.     *)
(***************************************************************************)
InitWindow ==
    /\ IS_WINDOWS \in BOOLEAN
    /\ word_doc_path = None
    /\ appendix_list = <<>>
    /\ curselection = {}
    /\ connect_btn = IF IS_WINDOWS THEN "normal" ELSE "disabled"
    /\ add_pdf_btn = "normal"
    /\ remove_btn = "disabled"
    /\ configure_btn = "disabled"
    /\ move_up_btn = "disabled"
    /\ move_down_btn = "disabled"
    /\ generate_btn = "disabled"
    /\ after_queue = <<>>
    /\ thread = [t \in Threads |-> IdleThread]

NoParserCall ==
    /\ tokens = <<>>
    /\ arg_range_str = None
    /\ arg_max_pages = 0
    /\ parse_result = None

Init == InitWindow /\ NoParserCall

(***************************************************************************)
(* Handlers of the interactive thread.                                     *)
(***************************************************************************)
\* _connect_to_live_document; file_path is what get_live_word_document gives
_connect_to_live_document ==
    /\ connect_btn = "normal"
    /\ \E file_path \in {None} \cup {Some(d) : d \in Docs} :
          IF file_path # None
          THEN /\ word_doc_path' = file_path
               /\ generate_btn' = GenerateState(file_path, appendix_list)
          ELSE UNCHANGED <<word_doc_path, generate_btn>>
    /\ UNCHANGED <<IS_WINDOWS, appendix_list, curselection, connect_btn,
                   add_pdf_btn, control_btns, after_queue, thread, parser_vars>>

_add_pdfs(file_reads) ==
    /\ add_pdf_btn = "normal"
    /\ IF file_reads = <<>>
       THEN UNCHANGED <<appendix_list, curselection, control_btns,
                        generate_btn, thread>>
       ELSE LET appended == AppendPdfs(appendix_list, file_reads)
                selected == IF appended = <<>> THEN {} ELSE {Len(appended) - 1}
            IN  /\ appendix_list' = _refresh_appendix_listbox(appended)
                /\ curselection' = selected
                /\ _update_control_button_states(selected)
                /\ generate_btn' = GenerateState(word_doc_path, appended)
                /\ Rebind(appended)
    /\ UNCHANGED <<IS_WINDOWS, word_doc_path, connect_btn, add_pdf_btn,
                   after_queue, parser_vars>>

_remove_selected ==
    /\ remove_btn = "normal"
    /\ IF curselection = {}
       THEN UNCHANGED <<appendix_list, curselection, control_btns,
                        generate_btn, thread>>
       ELSE LET first == SmallestOf(curselection)
                select_after == IF first > 0 THEN first - 1 ELSE 0
                remaining == RemoveSelected(appendix_list, curselection)
                selected == IF remaining # <<>>
                            THEN {Min(select_after, Len(remaining) - 1)}
                            ELSE {}
            IN  /\ appendix_list' = _refresh_appendix_listbox(remaining)
                /\ curselection' = selected
                /\ generate_btn' = GenerateState(word_doc_path, remaining)
                /\ _update_control_button_states(selected)
                /\ Rebind(remaining)
    /\ UNCHANGED <<IS_WINDOWS, word_doc_path, connect_btn, add_pdf_btn,
                   after_queue, parser_vars>>

\* _move_item going round the ends of the list in place of the bounds test
_move_item_wrapping(direction) ==
    /\ IF curselection = {} \/ Cardinality(curselection) > 1
       THEN UNCHANGED <<appendix_list, curselection, thread>>
       ELSE LET idx == SmallestOf(curselection)
                new_idx == (idx + direction) % Len(appendix_list)
                moved == PopInsert(appendix_list, idx, new_idx)
            IN  /\ appendix_list' = _refresh_appendix_listbox(moved)
                /\ curselection' = {new_idx}
                /\ Rebind(moved)
    /\ UNCHANGED <<IS_WINDOWS, word_doc_path, button_vars, after_queue,
                   parser_vars>>

_move_item(direction) ==
    /\ IF curselection = {} \/ Cardinality(curselection) > 1
       THEN UNCHANGED <<appendix_list, curselection, thread>>
       ELSE LET idx == SmallestOf(curselection)
                new_idx == idx + direction
            IN  IF 0 <= new_idx /\ new_idx < Len(appendix_list)
                THEN LET moved == PopInsert(appendix_list, idx, new_idx)
                     IN  /\ appendix_list' = _refresh_appendix_listbox(moved)
                         /\ curselection' = {new_idx}
                         /\ Rebind(moved)
                ELSE UNCHANGED <<appendix_list, curselection, thread>>
    /\ UNCHANGED <<IS_WINDOWS, word_doc_path, button_vars, after_queue,
                   parser_vars>>

_move_up == move_up_btn = "normal" /\ _move_item(-1)

_move_down == move_down_btn = "normal" /\ _move_item(1)

\* _rename_appendix testing new_title alone, without new_title.strip()
_rename_appendix_accepting_blank(new_title) ==
    /\ IF curselection = {} \/ new_title = None \/ new_title = Some(<<>>)
       THEN UNCHANGED <<appendix_list, curselection, thread>>
       ELSE LET idx == SmallestOf(curselection)
                renamed == [appendix_list EXCEPT
                               ![idx + 1].custom_title = new_title[1]]
            IN  /\ appendix_list' = _refresh_appendix_listbox(renamed)
                /\ curselection' = {idx}
                /\ Rebind(renamed)
    /\ UNCHANGED <<IS_WINDOWS, word_doc_path, button_vars, after_queue,
                   parser_vars>>

\* bound to <Double-1> of the listbox; new_title is what the dialog returns
_rename_appendix(new_title) ==
    /\ IF curselection = {}
       THEN UNCHANGED <<appendix_list, curselection, thread>>
       ELSE LET idx == SmallestOf(curselection)
            IN  IF new_title # None /\ strip(new_title[1]) # <<>>
                THEN LET renamed == [appendix_list EXCEPT
                                        ![idx + 1].custom_title = new_title[1]]
                     IN  /\ appendix_list' = _refresh_appendix_listbox(renamed)
                         /\ curselection' = {idx}
                         /\ Rebind(renamed)
                ELSE UNCHANGED <<appendix_list, curselection, thread>>
    /\ UNCHANGED <<IS_WINDOWS, word_doc_path, button_vars, after_queue,
                   parser_vars>>

\* _configure_pages storing what was typed without parsing it
_configure_pages_unvalidated(new_range_str) ==
    /\ configure_btn = "normal"
    /\ IF curselection = {} \/ Cardinality(curselection) > 1 \/ new_range_str = None
       THEN UNCHANGED <<appendix_list, curselection, thread>>
       ELSE LET idx == SmallestOf(curselection)
                stripped == strip(new_range_str[1])
                final_range == IF stripped # <<>> THEN Some(stripped) ELSE None
                configured == [appendix_list EXCEPT
                                  ![idx + 1].page_range = final_range]
            IN  /\ appendix_list' = _refresh_appendix_listbox(configured)
                /\ curselection' = {idx}
                /\ Rebind(configured)
    /\ UNCHANGED <<IS_WINDOWS, word_doc_path, button_vars, after_queue,
                   parser_vars>>

\* _configure_pages storing the text as typed, blanks included
_configure_pages_untrimmed(new_range_str) ==
    /\ configure_btn = "normal"
    /\ IF curselection = {} \/ Cardinality(curselection) > 1 \/ new_range_str = None
       THEN UNCHANGED <<appendix_list, curselection, thread>>
       ELSE LET idx == SmallestOf(curselection)
                page_count == At(appendix_list, idx).page_count
                stripped == strip(new_range_str[1])
            IN  IF /\ stripped # <<>>
                   /\ _parse_page_range(Some(stripped), page_count) = None
                THEN UNCHANGED <<appendix_list, curselection, thread>>
                ELSE LET final_range == IF stripped # <<>> THEN new_range_str
                                        ELSE None
                         configured == [appendix_list EXCEPT
                                           ![idx + 1].page_range = final_range]
                     IN  /\ appendix_list' = _refresh_appendix_listbox(configured)
                         /\ curselection' = {idx}
                         /\ Rebind(configured)
    /\ UNCHANGED <<IS_WINDOWS, word_doc_path, button_vars, after_queue,
                   parser_vars>>

\* new_range_str is what the dialog returns
_configure_pages(new_range_str) ==
    /\ configure_btn = "normal"
    /\ IF curselection = {} \/ Cardinality(curselection) > 1
       THEN UNCHANGED <<appendix_list, curselection, thread>>
       ELSE LET idx == SmallestOf(curselection)
                page_count == At(appendix_list, idx).page_count
                stripped == strip(new_range_str[1])
            IN  IF new_range_str = None
                THEN UNCHANGED <<appendix_list, curselection, thread>>
                ELSE IF /\ stripped # <<>>
                        /\ _parse_page_range(Some(stripped), page_count) = None
                THEN UNCHANGED <<appendix_list, curselection, thread>>
                ELSE LET final_range == IF stripped # <<>> THEN Some(stripped)
                                        ELSE None
                         configured == [appendix_list EXCEPT
                                           ![idx + 1].page_range = final_range]
                     IN  /\ appendix_list' = _refresh_appendix_listbox(configured)
                         /\ curselection' = {idx}
                         /\ Rebind(configured)
    /\ UNCHANGED <<IS_WINDOWS, word_doc_path, button_vars, after_queue,
                   parser_vars>>

\* the user clicks entry j of the listbox (browse mode): <<ListboxSelect>>
ListboxSelect(j) ==
    /\ curselection' = {j}
    /\ _update_control_button_states({j})
    /\ UNCHANGED <<IS_WINDOWS, word_doc_path, appendix_list, connect_btn,
                   add_pdf_btn, generate_btn, after_queue, thread, parser_vars>>

(***************************************************************************)
(* Starting an assembly.                                                   *)
(***************************************************************************)
\* _validate_inputs; files_exist is what os.path.exists answers for the
\* document and for every listed PDF
_validate_inputs(files_exist) ==
    /\ word_doc_path # None
    /\ files_exist
    /\ appendix_list # <<>>

FreeThreads == {t \in Threads : thread[t].pc = "idle"}

\* slots: the worker threads the model lets exist
_start_generation_thread(slots) ==
    /\ generate_btn = "normal"
    /\ FreeThreads \cap slots # {}
    /\ \E files_exist \in BOOLEAN :
          IF ~_validate_inputs(files_exist)
          THEN UNCHANGED <<after_queue, thread>>
          ELSE LET t == SmallestOf(FreeThreads \cap slots)
               IN  /\ after_queue' = Append(after_queue, UpdateCallback(FALSE))
                   /\ thread' = [thread EXCEPT
                                    ![t] = [IdleThread EXCEPT !.pc = "convert_base"]]
    /\ UNCHANGED <<IS_WINDOWS, registry_vars, button_vars, parser_vars>>

(***************************************************************************)
(* Callbacks run by the main loop.                                         *)
(***************************************************************************)
\* the update closure of _set_controls_enabled
RunUpdate ==
    /\ after_queue # <<>>
    /\ Head(after_queue).fn = "update"
    /\ LET enabled == Head(after_queue).enabled
           state == IF enabled THEN "normal" ELSE "disabled"
       IN  /\ connect_btn' = IF IS_WINDOWS THEN state ELSE connect_btn
           /\ add_pdf_btn' = state
           /\ IF enabled
              THEN /\ _update_control_button_states(curselection)
                   /\ generate_btn' = GenerateState(word_doc_path, appendix_list)
              ELSE /\ remove_btn' = "disabled"
                   /\ configure_btn' = "disabled"
                   /\ move_up_btn' = "disabled"
                   /\ move_down_btn' = "disabled"
                   /\ generate_btn' = "disabled"
    /\ after_queue' = Tail(after_queue)
    /\ UNCHANGED <<IS_WINDOWS, registry_vars, thread, parser_vars>>

\* prompt_save of _merge_and_save_final_pdf; path is the user's answer
RunPromptSave ==
    /\ after_queue # <<>>
    /\ Head(after_queue).fn = "prompt_save"
    /\ LET t == Head(after_queue).thread
       IN  \E path \in SavePaths :
              thread' = [thread EXCEPT ![t].save_path_container =
                                           Append(@, path)]
    /\ after_queue' = Tail(after_queue)
    /\ UNCHANGED <<IS_WINDOWS, registry_vars, button_vars, parser_vars>>

\* finalize_ui without its call of _set_controls_enabled(True)
RunFinalizeUi_leaving_controls ==
    /\ after_queue # <<>>
    /\ Head(after_queue).fn = "finalize_ui"
    /\ after_queue' = Tail(after_queue)
    /\ thread' = [thread EXCEPT ![Head(after_queue).thread] = IdleThread]
    /\ UNCHANGED <<IS_WINDOWS, registry_vars, button_vars, parser_vars>>

\* finalize_ui of _generate_document_worker
RunFinalizeUi ==
    /\ after_queue # <<>>
    /\ Head(after_queue).fn = "finalize_ui"
    /\ after_queue' = Append(Tail(after_queue), UpdateCallback(TRUE))
    /\ thread' = [thread EXCEPT ![Head(after_queue).thread] = IdleThread]
    /\ UNCHANGED <<IS_WINDOWS, registry_vars, button_vars, parser_vars>>

(***************************************************************************)
(* The worker: _generate_document_worker and the functions it calls.       *)
(***************************************************************************)
\* Leave with a temporary directory that is never removed
Leave_keeping_files(frame, outcome, error) ==
    [frame EXCEPT !.pc = "done", !.outcome = outcome, !.error = error]

\* leaving the with block and the try: the temporary directory is removed,
\* the outcome is reported and finalize_ui is scheduled
Leave(frame, outcome, error) ==
    [frame EXCEPT !.pc = "done", !.temp_files = {},
                  !.outcome = outcome, !.error = error]

Finish(t, frame, outcome, error) ==
    /\ thread' = [thread EXCEPT ![t] = Leave(frame, outcome, error)]
    /\ after_queue' = Append(after_queue, FinalizeUiCallback(t))

\* the list object a loop iterates: bound when the loop is entered
Iterated(t) == IF thread[t].i = 0 THEN appendix_list ELSE thread[t].iter_list

IteratedLive(t) == IF thread[t].i = 0 THEN TRUE ELSE thread[t].iter_live

\* ConvertBase with prompt_save scheduled before the conversion is tried
ConvertBase_prompting_first(t) ==
    /\ thread[t].pc = "convert_base"
    /\ \E ok \in BOOLEAN :
          IF ok
          THEN /\ thread' = [thread EXCEPT
                                ![t].pc = "headings",
                                ![t].base = word_doc_path,
                                ![t].temp_files = {BaseDocumentPdf},
                                ![t].i = 0]
               /\ after_queue' = Append(after_queue, PromptSaveCallback(t))
          ELSE /\ thread' = [thread EXCEPT
                                ![t] = Leave(thread[t], "error", "conversion")]
               /\ after_queue' = Append(Append(after_queue, PromptSaveCallback(t)),
                                        FinalizeUiCallback(t))
    /\ UNCHANGED <<IS_WINDOWS, registry_vars, button_vars, parser_vars>>

\* step 1: _convert_to_pdf of the base document; ok is the service's result
ConvertBase(t) ==
    /\ thread[t].pc = "convert_base"
    /\ \E ok \in BOOLEAN :
          IF ok
          THEN /\ thread' = [thread EXCEPT
                                ![t].pc = "headings",
                                ![t].base = word_doc_path,
                                ![t].temp_files = {BaseDocumentPdf},
                                ![t].i = 0]
               /\ UNCHANGED after_queue
          ELSE Finish(t, thread[t], "error", "conversion")
    /\ UNCHANGED <<IS_WINDOWS, registry_vars, button_vars, parser_vars>>

\* step 2: one round of the loop of _create_heading_pdfs, or its end, after
\* which _merge_and_save_final_pdf schedules prompt_save
CreateHeading(t) ==
    /\ thread[t].pc = "headings"
    /\ LET i == thread[t].i
           list == Iterated(t)
       IN  IF i < Len(list)
           THEN LET entry == At(list, i)
                    docx == TempFile("heading", i, "docx")
                    pdf == TempFile("heading", i, "pdf")
                    title_page == [title |-> entry.custom_title,
                                   path |-> entry.path]
                IN  \E ok \in BOOLEAN :
                       IF ok
                       THEN /\ thread' = [thread EXCEPT
                                   ![t].temp_files = @ \cup {docx, pdf},
                                   ![t].heading_pdf_paths = Append(@, title_page),
                                   ![t].iter_list = list,
                                   ![t].iter_live = IteratedLive(t),
                                   ![t].i = i + 1]
                            /\ UNCHANGED after_queue
                       ELSE Finish(t, [thread[t] EXCEPT
                                          !.temp_files = @ \cup {docx}],
                                   "error", "conversion")
           ELSE /\ thread' = [thread EXCEPT ![t].pc = "wait_save", ![t].i = 0,
                                            ![t].iter_list = <<>>,
                                            ![t].iter_live = FALSE]
                /\ after_queue' = Append(after_queue, PromptSaveCallback(t))
    /\ UNCHANGED <<IS_WINDOWS, registry_vars, button_vars, parser_vars>>

\* AwaitSavePath without the test of an empty answer
AwaitSavePath_ignoring_cancel(t) ==
    /\ thread[t].pc = "wait_save"
    /\ thread[t].save_path_container # <<>>
    /\ thread' = [thread EXCEPT
                     ![t].pc = "merge",
                     ![t].writer = <<BaseSegment(thread[t].base[1])>>,
                     ![t].i = 0]
    /\ UNCHANGED after_queue
    /\ UNCHANGED <<IS_WINDOWS, registry_vars, button_vars, parser_vars>>

\* the polling loop sees the answer of prompt_save
AwaitSavePath(t) ==
    /\ thread[t].pc = "wait_save"
    /\ thread[t].save_path_container # <<>>
    /\ LET output_path == thread[t].save_path_container[1]
       IN  IF output_path = ""
           THEN Finish(t, thread[t], "cancelled", "none")
           ELSE /\ thread' = [thread EXCEPT
                                 ![t].pc = "merge",
                                 ![t].writer = <<BaseSegment(thread[t].base[1])>>,
                                 ![t].i = 0]
                /\ UNCHANGED after_queue
    /\ UNCHANGED <<IS_WINDOWS, registry_vars, button_vars, parser_vars>>

\* what reading a PDF at merge time gives: its page count, or None (raises)
MergeReads == {None} \cup {Some(n) : n \in MergeCounts}

\* MergeAppendix adding the pages the parser returned whether or not a
\* range was given: none for an entry with no range
MergeAppendix_by_parsed_pages(t) ==
    /\ thread[t].pc = "merge"
    /\ LET i == thread[t].i
           list == Iterated(t)
           frame == thread[t]
       IN  IF i < Len(list)
           THEN LET entry == At(list, i)
                    page_range_str == entry.page_range
                    given == page_range_str # None /\ page_range_str # Some(<<>>)
                    pages_to_add == _parse_page_range(page_range_str,
                                                      entry.page_count)
                IN  IF i >= Len(frame.heading_pdf_paths)
                    THEN Finish(t, frame, "error", "IndexError")
                    ELSE IF pages_to_add = None /\ given
                    THEN Finish(t, frame, "error", "invalid page range")
                    ELSE \E read \in MergeReads :
                       IF read = None
                       THEN Finish(t, frame, "error", "read")
                       ELSE LET titled == Append(frame.writer,
                                    TitleSegment(At(frame.heading_pdf_paths, i)))
                                picked == SelectSeq(pages_to_add[1],
                                              LAMBDA page_num : page_num < read[1])
                                added ==
                                    [k \in 1..Len(picked) |->
                                        PageSegment(entry.path, picked[k])]
                            IN  /\ thread' = [thread EXCEPT
                                       ![t].writer = titled \o added,
                                       ![t].iter_list = list,
                                       ![t].iter_live = IteratedLive(t),
                                       ![t].i = i + 1]
                                /\ UNCHANGED after_queue
           ELSE \E ok \in BOOLEAN :
                   IF ok
                   THEN Finish(t, [frame EXCEPT !.output = Some(frame.writer)],
                               "success", "none")
                   ELSE Finish(t, frame, "error", "write")
    /\ UNCHANGED <<IS_WINDOWS, registry_vars, button_vars, parser_vars>>

\* step 3: one round of the merge loop, or its end and the write
MergeAppendix(t) ==
    /\ thread[t].pc = "merge"
    /\ LET i == thread[t].i
           list == Iterated(t)
           frame == thread[t]
       IN  IF i < Len(list)
           THEN LET entry == At(list, i)
                    page_range_str == entry.page_range
                    given == page_range_str # None /\ page_range_str # Some(<<>>)
                    pages_to_add == _parse_page_range(page_range_str,
                                                      entry.page_count)
                IN  IF i >= Len(frame.heading_pdf_paths)
                    THEN Finish(t, frame, "error", "IndexError")
                    ELSE IF pages_to_add = None /\ given
                    THEN Finish(t, frame, "error", "invalid page range")
                    ELSE \E read \in MergeReads :
                       IF read = None
                       THEN Finish(t, frame, "error", "read")
                       ELSE LET titled == Append(frame.writer,
                                    TitleSegment(At(frame.heading_pdf_paths, i)))
                                picked == SelectSeq(pages_to_add[1],
                                              LAMBDA page_num : page_num < read[1])
                                added ==
                                    IF given /\ pages_to_add # None
                                    THEN [k \in 1..Len(picked) |->
                                             PageSegment(entry.path, picked[k])]
                                    ELSE <<DocumentSegment(entry.path)>>
                            IN  /\ thread' = [thread EXCEPT
                                       ![t].writer = titled \o added,
                                       ![t].iter_list = list,
                                       ![t].iter_live = IteratedLive(t),
                                       ![t].i = i + 1]
                                /\ UNCHANGED after_queue
           ELSE \E ok \in BOOLEAN :
                   IF ok
                   THEN Finish(t, [frame EXCEPT !.output = Some(frame.writer)],
                               "success", "none")
                   ELSE Finish(t, frame, "error", "write")
    /\ UNCHANGED <<IS_WINDOWS, registry_vars, button_vars, parser_vars>>

(***************************************************************************)
(* The application.                                                        *)
(***************************************************************************)
\* the Add button: the dialog returns one of inputs, and the list is kept
\* within max_len entries
AddPdfs(inputs, max_len) ==
    \E file_reads \in inputs :
       /\ Len(AppendPdfs(appendix_list, file_reads)) <= max_len
       /\ _add_pdfs(file_reads)

\* the double click: the dialog returns one of inputs or the title it showed
RenameAppendix(inputs) ==
    \E new_title \in inputs \cup {Some(appendix_list[k].custom_title) :
                                      k \in 1..Len(appendix_list)} :
       _rename_appendix(new_title)

ConfigurePages(inputs) == \E new_range_str \in inputs : _configure_pages(new_range_str)

SelectEntry == \E j \in Indices(appendix_list) : ListboxSelect(j)

\* every handler that changes or rebinds the registry
Editing ==
    \/ _remove_selected
    \/ _move_up
    \/ _move_down
    \/ RenameAppendix(TitleInputs)
    \/ ConfigurePages(RangeInputs)

MainLoop ==
    \/ _connect_to_live_document
    \/ SelectEntry
    \/ RunUpdate
    \/ RunPromptSave
    \/ RunFinalizeUi

Worker ==
    \/ \E t \in Threads : ConvertBase(t)
    \/ \E t \in Threads : CreateHeading(t)
    \/ \E t \in Threads : AwaitSavePath(t)
    \/ \E t \in Threads : MergeAppendix(t)

\* one assembly at a time is let start
Next ==
    \/ AddPdfs(AddInputs, MaxAppendices)
    \/ _start_generation_thread({1})
    \/ Editing
    \/ MainLoop
    \/ Worker

Spec == Init /\ [][Next]_vars

\* a second assembly may start while the first one runs
NextConcurrent ==
    \/ AddPdfs(AddInputs, MaxConcurrentAppendices)
    \/ _start_generation_thread(Threads)
    \/ Editing
    \/ MainLoop
    \/ Worker

SpecConcurrent == Init /\ [][NextConcurrent]_vars

\* the main loop keeps running the callbacks handed to self.after
FairSpec ==
    /\ Spec
    /\ WF_vars(RunUpdate)
    /\ WF_vars(RunPromptSave)
    /\ WF_vars(RunFinalizeUi)

\* the registry edited with no assembly started
NextRegistry ==
    \/ AddPdfs(RegistryAddInputs, MaxRegistryAppendices)
    \/ _remove_selected
    \/ _move_up
    \/ _move_down
    \/ RenameAppendix(RegistryTitleInputs)
    \/ ConfigurePages(RegistryRangeInputs)
    \/ SelectEntry
    \/ _connect_to_live_document

SpecRegistry == Init /\ [][NextRegistry]_vars

(***************************************************************************)
(* The parser on its own: an expression is written out from a list of      *)
(* tokens and handed to _parse_page_range.                                 *)
(***************************************************************************)
\* page numbers written in generated tokens; 10 has two digits
TokenNumbers == (0 .. MaxNum) \cup {10}

\* tokens that are neither a number nor a range of two numbers
MalformedTokens ==
    << <<"x">>, <<"1", "x">>, <<"1", "-", "2", "-", "3">>, <<"1", "-">>,
       <<"-", "1">>, <<"-">>, <<"1", " ", "2">> >>

Token(kind, a, b, pad) == [kind |-> kind, a |-> a, b |-> b, pad |-> pad]

\* a single page, bare or with blanks around it; a range, bare or with
\* blanks around its numbers, which int() strips; an empty token, of no or
\* of one blank; a malformed token
Tokens ==
    {Token("single", n, n, pad) : n \in TokenNumbers, pad \in 0..1}
      \cup {Token("range", a, b, pad) : a \in 0..MaxNum, b \in 0..MaxNum,
                                        pad \in 0..1}
      \cup {Token("empty", 0, 0, pad) : pad \in 0..1}
      \cup {Token("malformed", k, k, 0) : k \in 1..Len(MalformedTokens)}

RECURSIVE TokenLists(_)
TokenLists(n) ==
    IF n = 0 THEN {<<>>}
    ELSE LET shorter == TokenLists(n - 1)
         IN  shorter \cup {Append(l, tok) : l \in {x \in shorter : Len(x) = n - 1},
                                            tok \in Tokens}

\* the decimal digits of n
RECURSIVE Decimal(_)
Decimal(n) ==
    IF n < 10 THEN <<DigitChars[n + 1]>>
    ELSE Decimal(n \div 10) \o <<DigitChars[(n % 10) + 1]>>

Blanks(pad) == IF pad = 0 THEN <<>> ELSE <<" ">>

Written(tok) ==
    CASE tok.kind = "single" -> Blanks(tok.pad) \o Decimal(tok.a) \o Blanks(tok.pad)
      [] tok.kind = "range" -> Decimal(tok.a) \o Blanks(tok.pad) \o <<"-">>
                                  \o Blanks(tok.pad) \o Decimal(tok.b)
      [] tok.kind = "empty" -> Blanks(tok.pad)
      [] tok.kind = "malformed" -> MalformedTokens[tok.a]

\* the tokens written out with commas between them
RECURSIVE Expression(_)
Expression(toks) ==
    IF toks = <<>> THEN <<>>
    ELSE IF Len(toks) = 1 THEN Written(toks[1])
    ELSE Written(toks[1]) \o <<",">> \o Expression(Tail(toks))

InitParse ==
    /\ InitWindow
    /\ IS_WINDOWS
    /\ tokens \in TokenLists(MaxTokens)
    /\ arg_range_str = Some(Expression(tokens))
    /\ arg_max_pages \in 1..MaxNum
    /\ parse_result = None

\* the call returns
ParseCall ==
    /\ arg_range_str # None
    /\ parse_result = None
    /\ parse_result' = Some(_parse_page_range(arg_range_str, arg_max_pages))
    /\ UNCHANGED <<IS_WINDOWS, registry_vars, button_vars, after_queue, thread,
                   tokens, arg_range_str, arg_max_pages>>

NextParse == ParseCall

SpecParse == InitParse /\ [][NextParse]_vars

(***************************************************************************)
(* Properties of the registry.                                             *)
(***************************************************************************)
\* C1: after any sequence of add, remove, move, rename and setPageRange, the
\* entry at every zero-based position i has the default label "Appendix "
\* followed by the i-th capital letter, whatever its custom title is.
C1_LabelsFollowPositions ==
    \A k \in 1..Len(appendix_list) :
       appendix_list[k].default_label = DefaultLabel(k - 1)

\* an entry added as "Appendix B" stands first after a removal: it keeps its
\* title and is labelled "Appendix A"
C1_Witness ==
    /\ appendix_list # <<>>
    /\ appendix_list[1].custom_title =
          <<"A", "p", "p", "e", "n", "d", "i", "x", " ", "B">>
    /\ appendix_list[1].default_label =
          <<"A", "p", "p", "e", "n", "d", "i", "x", " ", "A">>

(***************************************************************************)
(* Properties of the assembly.                                             *)
(***************************************************************************)
Assembling == \E t \in Threads : InFlight(t)

\* C2: while an assembly is running, no step is an add, a remove, a move, a
\* rename or a setPageRange: none of them can be performed, also after the
\* selection changed or an entry was double-clicked.
C2_NoEditWhileAssembling ==
    [][Assembling => ~(AddPdfs(AddInputs, MaxAppendices) \/ Editing)]_vars

\* C3: in every reachable state at most one assembly is running.
C3_AtMostOneAssembly == Cardinality({t \in Threads : InFlight(t)}) <= 1

\* what C4 has follow the base document for one entry, its file holding
\* n pages when it is composed
ExpectedAppendix(entry, n) ==
    LET parsed == _parse_page_range(entry.page_range, entry.page_count)
        picked == IF parsed = None THEN <<>>
                  ELSE SelectSeq(parsed[1], LAMBDA p : p < n)
    IN  <<TitleSegment([title |-> entry.custom_title, path |-> entry.path])>>
        \o IF entry.page_range = None \/ entry.page_range = Some(<<>>)
           THEN <<DocumentSegment(entry.path)>>
           ELSE [k \in 1..Len(picked) |-> PageSegment(entry.path, picked[k])]

RECURSIVE ExpectedAppendices(_, _)
ExpectedAppendices(list, counts) ==
    IF list = <<>> THEN <<>>
    ELSE ExpectedAppendix(Head(list), Head(counts))
            \o ExpectedAppendices(Tail(list), Tail(counts))

\* C4: the output a successful assembly writes is the converted base
\* document followed, for each entry of the registry in its order, by the
\* entry's title page and then all of its pages or the pages its range
\* selects, those beyond the file's page count at composition left out.
C4_OutputComposesRegistry ==
    [][\A t \in Threads :
          (thread[t].outcome # "success" /\ thread'[t].outcome = "success")
             => \E counts \in [1..Len(appendix_list) -> MergeCounts] :
                   thread'[t].output =
                      Some(<<BaseSegment(word_doc_path[1])>>
                              \o ExpectedAppendices(appendix_list, counts))]_vars

PromptRequested(t) ==
    \/ thread[t].save_path_container # <<>>
    \/ \E k \in 1..Len(after_queue) : after_queue[k] = PromptSaveCallback(t)

\* C5: an assembly whose conversion of the base document or of a title page
\* failed has ended with a failure, has written no output, has not begun
\* the merge and has not asked for the output location.
C5_ConversionFailureAborts ==
    \A t \in Threads :
       thread[t].error = "conversion"
          => /\ thread[t].pc = "done"
             /\ thread[t].outcome = "error"
             /\ thread[t].output = None
             /\ thread[t].writer = <<>>
             /\ ~PromptRequested(t)

\* the conversion of the second title page has failed
C5_Witness ==
    \E t \in Threads :
       /\ thread[t].error = "conversion"
       /\ Len(thread[t].heading_pdf_paths) = 1
       /\ Len(appendix_list) = 2

\* C6: an assembly that was given no output location ends as cancelled, not
\* as an error, and writes nothing.
C6_NoLocationCancels ==
    \A t \in Threads :
       thread[t].save_path_container = <<"">>
          => /\ \/ thread[t].pc = "wait_save"
                \/ thread[t].pc = "done" /\ thread[t].outcome = "cancelled"
                                         /\ thread[t].error = "none"
             /\ thread[t].output = None
             /\ thread[t].writer = <<>>

\* the dialog was dismissed and the assembly has ended as cancelled
C6_Witness ==
    \E t \in Threads :
       /\ thread[t].save_path_container = <<"">>
       /\ thread[t].outcome = "cancelled"
       /\ thread[t].heading_pdf_paths # <<>>

\* C7: when an assembly has ended, by success, cancellation, conversion
\* failure or any other failure, none of its temporary files is left.
C7_TempFilesDeleted ==
    \A t \in Threads : thread[t].pc = "done" => thread[t].temp_files = {}

\* an assembly has failed at the write, after the base document and a title
\* page were converted into temporary files
C7_Witness ==
    \E t \in Threads :
       /\ thread[t].pc = "done"
       /\ thread[t].error = "write"
       /\ thread[t].base # None
       /\ thread[t].heading_pdf_paths # <<>>

Enabled(btn) == btn = "normal"

\* the controls as _set_controls_enabled(True) leaves them for the present
\* selection and registry
ControlsReenabled ==
    /\ Enabled(add_pdf_btn)
    /\ IS_WINDOWS => Enabled(connect_btn)
    /\ Enabled(remove_btn) <=> curselection # {}
    /\ Enabled(configure_btn) <=> Cardinality(curselection) = 1
    /\ Enabled(move_up_btn) <=> Cardinality(curselection) = 1
    /\ Enabled(move_down_btn) <=> Cardinality(curselection) = 1
    /\ Enabled(generate_btn) <=> (word_doc_path # None /\ appendix_list # <<>>)

\* C8: the worker never changes the registry, and every assembly that has
\* ended, however it ended, is followed by the controls being enabled again
\* according to the selection and the registry of that moment.
C8_EndedAssemblyReenablesControls ==
    /\ [][Worker => appendix_list' = appendix_list]_vars
    /\ \A t \in Threads : (thread[t].pc = "done") ~> ControlsReenabled

\* an assembly has ended as cancelled and the controls are still disabled
C8_Witness ==
    \E t \in Threads :
       /\ thread[t].pc = "done"
       /\ thread[t].outcome = "cancelled"
       /\ ~Enabled(add_pdf_btn)
       /\ ~Enabled(generate_btn)


(***************************************************************************)
(* Properties of the parser.                                               *)
(***************************************************************************)
NonEmptyTokens == {k \in 1..Len(tokens) : tokens[k].kind # "empty"}

ValidToken(tok) ==
    \/ tok.kind = "single" /\ 1 <= tok.a /\ tok.a <= arg_max_pages
    \/ tok.kind = "range" /\ 1 <= tok.a /\ tok.a <= tok.b /\ tok.b <= arg_max_pages

TokenPages(tok) == IF tok.kind = "single" THEN {tok.a} ELSE tok.a .. tok.b

StrictlyAscending(seq) == \A k \in 1..(Len(seq) - 1) : seq[k] < seq[k + 1]

Returned == parse_result # None

\* C9: when every non-empty token is a valid page or range, parse returns the
\* strictly ascending sequence whose elements are exactly the pages of all
\* tokens, each minus one, whatever the order and overlap of the tokens.
C9_ParseGivesSortedUnion ==
    (Returned /\ \A k \in NonEmptyTokens : ValidToken(tokens[k]))
        => /\ parse_result[1] # None
           /\ LET pages == parse_result[1][1]
              IN  /\ StrictlyAscending(pages)
                  /\ {pages[k] : k \in 1..Len(pages)} =
                         {p - 1 : p \in UNION {TokenPages(tokens[k]) :
                                                  k \in NonEmptyTokens}}

\* parse("2 - 3,1-2", 3) has returned [0, 1, 2]
C9_Witness ==
    /\ arg_range_str = Some(<<"2", " ", "-", " ", "3", ",", "1", "-", "2">>)
    /\ arg_max_pages = 3
    /\ parse_result = Some(Some(<<0, 1, 2>>))

\* C10: when some non-empty token is out of bounds, a reversed range or
\* malformed, parse returns None, whatever the other tokens are.
C10_InvalidTokenFailsParse ==
    (Returned /\ \E k \in NonEmptyTokens : ~ValidToken(tokens[k]))
        => parse_result[1] = None

\* parse("1,2-1", 3) has returned None: no swap and no partial result
C10_Witness ==
    /\ arg_range_str = Some(<<"1", ",", "2", "-", "1">>)
    /\ arg_max_pages = 3
    /\ parse_result = Some(None)

\* C11: parse of an expression that is empty once trimmed returns the empty
\* sequence, whatever max_pages is: it does not fail.
C11_EmptyExpressionGivesNoPages ==
    (Returned /\ strip(arg_range_str[1]) = <<>>) => parse_result[1] = Some(<<>>)

\* parse(" ", 2) has returned []
C11_Witness ==
    /\ arg_range_str = Some(<<" ">>)
    /\ arg_max_pages = 2
    /\ parse_result = Some(Some(<<>>))

\* C12: the page range of every entry of the registry is absent or parses
\* against the page count of that entry, and no assembly ends with the
\* error raised for an invalid page range.
C12_StoredRangesParse ==
    /\ \A k \in 1..Len(appendix_list) :
          \/ appendix_list[k].page_range = None
          \/ _parse_page_range(appendix_list[k].page_range,
                               appendix_list[k].page_count) # None
    /\ \A t \in Threads : thread[t].error # "invalid page range"

\* the merge loop has added the page that the stored range "2" selects
C12_Witness ==
    \E t \in Threads :
       /\ thread[t].pc = "merge"
       /\ \E k \in 1..Len(thread[t].writer) : thread[t].writer[k].kind = "page"
       /\ \E k \in 1..Len(appendix_list) :
             appendix_list[k].page_range = Some(<<"2">>)

\* the entry a handler addresses when one entry is selected
Addressed == CHOOSE idx \in curselection : TRUE

\* C13: a setPageRange whose non-blank expression does not parse against the
\* page count of the addressed entry leaves the whole registry as it was; one
\* whose expression parses stores the trimmed expression in the addressed
\* entry and changes nothing else.
C13_SetPageRangeFrame ==
    [][\A new_range_str \in RegistryRangeInputs \ {None} :
          LET trimmed == strip(new_range_str[1])
              parsed == _parse_page_range(
                            Some(trimmed), At(appendix_list, Addressed).page_count)
          IN  (_configure_pages(new_range_str) /\ trimmed # <<>>)
                 => IF parsed = None
                    THEN appendix_list' = appendix_list
                    ELSE appendix_list' =
                            [appendix_list EXCEPT
                                ![Addressed + 1].page_range = Some(trimmed)]]_vars

\* " 2" was given for the first of two entries: "2" is stored there and the
\* second entry has no range
C13_Witness ==
    /\ Len(appendix_list) = 2
    /\ appendix_list[1].page_range = Some(<<"2">>)
    /\ appendix_list[2].page_range = None
    /\ curselection = {0}

Titles(list) == [k \in 1..Len(list) |-> list[k].custom_title]

Blank(text) == strip(text) = <<>>

\* C14: no entry ever has an empty or blank custom title; a rename that was
\* cancelled, or whose title is empty or blank, or that addresses no entry,
\* or whose title is the one the entry has, leaves every custom title as
\* it was.
C14_TitlesNeverBlank ==
    /\ [](\A k \in 1..Len(appendix_list) : ~Blank(appendix_list[k].custom_title))
    /\ [][\A new_title \in RegistryTitleInputs
                              \cup {Some(appendix_list[k].custom_title) :
                                       k \in 1..Len(appendix_list)} :
             (/\ _rename_appendix(new_title)
              /\ \/ new_title = None
                 \/ Blank(new_title[1])
                 \/ curselection = {}
                 \/ new_title[1] = At(appendix_list, Addressed).custom_title)
                => Titles(appendix_list') = Titles(appendix_list)]_vars

\* the second entry was renamed to "T" and is still selected
C14_Witness ==
    /\ Len(appendix_list) = 2
    /\ appendix_list[2].custom_title = <<"T">>
    /\ curselection = {1}

LastIndex == Len(appendix_list) - 1

\* C15: a move up of the first entry and a move down of the last entry change
\* neither the registry, nor any field of any entry, nor the selected index.
C15_MoveAtBoundaryIsNoOp ==
    [][/\ (_move_up /\ curselection = {0})
          => (appendix_list' = appendix_list /\ curselection' = {0})
       /\ (_move_down /\ curselection = {LastIndex})
          => (appendix_list' = appendix_list /\ curselection' = {LastIndex})]_vars

\* the entry added second was moved to the top, where Move Up is still
\* enabled for it
C15_Witness ==
    /\ Len(appendix_list) = 2
    /\ curselection = {0}
    /\ move_up_btn = "normal"
    /\ appendix_list[1].custom_title = DefaultLabel(1)
    /\ appendix_list[2].custom_title = DefaultLabel(0)

(***************************************************************************)
(* The removal on its own: _remove_selected is run on a registry and a     *)
(* selection of any of its positions, as a listbox that lets several       *)
(* entries be selected would hand it, the empty selection included.        *)
(***************************************************************************)
RemoveTitles == {<<"T">>, <<"U">>}

RECURSIVE ListsOf(_, _)
ListsOf(S, n) ==
    IF n = 0 THEN {<<>>}
    ELSE LET shorter == ListsOf(S, n - 1)
         IN  shorter \cup {Append(l, e) : l \in {x \in shorter : Len(x) = n - 1},
                                           e \in S}

\* registries as _refresh_appendix_listbox leaves them
RemoveLists ==
    {_refresh_appendix_listbox(l) :
        l \in ListsOf({Entry(<<>>, title, path, 2, None) :
                          title \in RemoveTitles, path \in {"a.pdf", "b.pdf"}},
                      MaxRemoveLen)}

InitRemove ==
    /\ IS_WINDOWS = TRUE
    /\ word_doc_path = None
    /\ appendix_list \in RemoveLists
    /\ curselection \in SUBSET Indices(appendix_list)
    /\ connect_btn = "normal"
    /\ add_pdf_btn = "normal"
    /\ remove_btn = "normal"
    /\ configure_btn = IF Cardinality(curselection) = 1 THEN "normal" ELSE "disabled"
    /\ move_up_btn = configure_btn
    /\ move_down_btn = configure_btn
    /\ generate_btn = "disabled"
    /\ after_queue = <<>>
    /\ thread = [t \in Threads |-> IdleThread]
    /\ NoParserCall

NextRemove == _remove_selected

SpecRemove == InitRemove /\ [][NextRemove]_vars

\* an entry without its default label
Content(entry) == [custom_title |-> entry.custom_title, path |-> entry.path,
                   page_count |-> entry.page_count,
                   page_range |-> entry.page_range]

Contents(list) == [k \in 1..Len(list) |-> Content(list[k])]

\* the positions of list that are not in S, in ascending order
Unselected(list, S) == sorted(Indices(list) \ S)

\* C16: a removal leaves exactly the entries at the positions that were not
\* selected, in the order they had, whichever positions were selected; with
\* nothing selected it changes nothing.
C16_RemoveLeavesUnselected ==
    [][_remove_selected
          => LET kept == Unselected(appendix_list, curselection)
             IN  /\ Len(appendix_list') = Len(kept)
                 /\ \A k \in 1..Len(kept) :
                       Content(appendix_list'[k]) =
                          Content(At(appendix_list, kept[k]))
                 /\ curselection = {} => appendix_list' = appendix_list]_vars

\* a removal has run and left nothing: Remove, enabled before every removal,
\* is disabled
C16_Witness ==
    /\ appendix_list = <<>>
    /\ curselection = {}
    /\ remove_btn = "disabled"

NothingToAssemble == word_doc_path = None \/ appendix_list = <<>>

\* how many disablings of the controls wait in the queue
Disablings(queue) ==
    Cardinality({k \in 1..Len(queue) : queue[k] = UpdateCallback(FALSE)})

\* C17: with no document connected or with an empty registry the button that
\* starts an assembly is disabled, and no step starts a worker, schedules
\* the disabling of the controls or, being an attempt to start, changes the
\* registry.
C17_StartBlockedWithoutInputs ==
    /\ [](NothingToAssemble => generate_btn = "disabled")
    /\ [][NothingToAssemble
             => /\ \A t \in Threads : thread[t].pc = "idle" => thread'[t].pc = "idle"
                /\ Disablings(after_queue') <= Disablings(after_queue)
                /\ \A slots \in SUBSET Threads :
                      _start_generation_thread(slots)
                         => UNCHANGED <<registry_vars, button_vars>>]_vars

\* the document is connected, the only entry was removed, the controls are
\* enabled and no assembly runs: nothing can start one
C17_Witness ==
    /\ word_doc_path # None
    /\ appendix_list = <<>>
    /\ add_pdf_btn = "normal"
    /\ generate_btn = "disabled"
    /\ after_queue = <<>>
    /\ \A t \in Threads : thread[t].pc = "idle"

(***************************************************************************)
(* One assembly from its trigger on: a.pdf and b.pdf were added, the       *)
(* document was connected and Create was clicked.  No other assembly is    *)
(* started, so the registry at the trigger is this one throughout.         *)
(***************************************************************************)
TriggeredWith ==
    AppendPdfs(<<>>, <<[path |-> "a.pdf", pages |-> Some(2)],
                       [path |-> "b.pdf", pages |-> Some(2)]>>)

InitTriggered ==
    /\ IS_WINDOWS = TRUE
    /\ word_doc_path = Some("report.docx")
    /\ appendix_list = TriggeredWith
    /\ curselection = {1}
    /\ connect_btn = "normal"
    /\ add_pdf_btn = "normal"
    /\ remove_btn = "normal"
    /\ configure_btn = "normal"
    /\ move_up_btn = "normal"
    /\ move_down_btn = "normal"
    /\ generate_btn = "normal"
    /\ after_queue = <<UpdateCallback(FALSE)>>
    /\ thread = [t \in Threads |->
                   IF t = 1 THEN [IdleThread EXCEPT !.pc = "convert_base"]
                   ELSE IdleThread]
    /\ NoParserCall

NextTriggered ==
    \/ Editing
    \/ MainLoop
    \/ Worker

SpecTriggered == InitTriggered /\ [][NextTriggered]_vars

TitlePages(out) == SelectSeq(out, LAMBDA s : s.kind = "title")

\* the title page that precedes segment k of out
PrecedingTitle(out, k) ==
    out[CHOOSE j \in 1..(k - 1) :
           /\ out[j].kind = "title"
           /\ \A h \in (j + 1)..(k - 1) : out[h].kind # "title"]

\* C18: in the output of a successful assembly the title pages are those of
\* the entries the registry had at the trigger, in that order, each with the
\* custom title and the file of its entry, and the pages after a title page
\* come from the file that title page names, whatever was done in the
\* window while the assembly ran.
C18_OutputFollowsRegistryAtTrigger ==
    \A t \in Threads :
       thread[t].outcome = "success"
          => LET out == thread[t].output[1]
                 titles == TitlePages(out)
             IN  /\ Len(titles) = Len(TriggeredWith)
                 /\ \A k \in 1..Len(titles) :
                       /\ titles[k].title = TriggeredWith[k].custom_title
                       /\ titles[k].path = TriggeredWith[k].path
                 /\ \A k \in 1..Len(out) :
                       out[k].kind \in {"doc", "page"}
                          => out[k].path = PrecedingTitle(out, k).path

(***************************************************************************)
(* The moves on their own: _move_up and _move_down are run on a registry   *)
(* as _add_pdfs built it and a selection of any of its positions, as a     *)
(* listbox that lets several entries be selected would hand it.            *)
(***************************************************************************)
MoveFileReads == [path : {"a.pdf", "b.pdf"}, pages : {Some(2)}]

MoveLists == {AppendPdfs(<<>>, reads) : reads \in ListsOf(MoveFileReads, MaxMoveLen)}

InitMove ==
    /\ IS_WINDOWS = TRUE
    /\ word_doc_path = None
    /\ appendix_list \in MoveLists
    /\ curselection \in SUBSET Indices(appendix_list)
    /\ connect_btn = "normal"
    /\ add_pdf_btn = "normal"
    /\ remove_btn = IF curselection = {} THEN "disabled" ELSE "normal"
    /\ configure_btn = IF Cardinality(curselection) = 1 THEN "normal" ELSE "disabled"
    /\ move_up_btn = "normal"
    /\ move_down_btn = "normal"
    /\ generate_btn = "disabled"
    /\ after_queue = <<>>
    /\ thread = [t \in Threads |-> IdleThread]
    /\ NoParserCall

NextMove ==
    \/ _move_up
    \/ _move_down

SpecMove == InitMove /\ [][NextMove]_vars

\* seq with the elements at the zero-based positions i and j exchanged
Exchanged(seq, i, j) ==
    [k \in 1..Len(seq) |-> IF k = i + 1 THEN seq[j + 1]
                           ELSE IF k = j + 1 THEN seq[i + 1]
                           ELSE seq[k]]

\* what a move by direction is to do to the registry
MoveEffect(direction) ==
    IF /\ Cardinality(curselection) = 1
       /\ 0 <= Addressed + direction
       /\ Addressed + direction < Len(appendix_list)
    THEN Contents(appendix_list') =
            Exchanged(Contents(appendix_list), Addressed, Addressed + direction)
    ELSE appendix_list' = appendix_list

\* C19: a move with one entry addressed and the neighbouring position inside
\* the list exchanges the entries at the two positions and leaves every
\* other entry where it was; with no entry or several entries addressed it
\* leaves the registry as it was.
C19_MoveExchangesNeighbours ==
    [][/\ _move_up => MoveEffect(-1)
       /\ _move_down => MoveEffect(1)]_vars

\* the entry added third was moved up once: it stands second, selected
C19_Witness ==
    /\ Len(appendix_list) = 3
    /\ appendix_list[1].custom_title = DefaultLabel(0)
    /\ appendix_list[2].custom_title = DefaultLabel(2)
    /\ appendix_list[3].custom_title = DefaultLabel(1)
    /\ curselection = {1}

\* how many entries of list have the content c
Count(list, c) == Cardinality({k \in 1..Len(list) : Content(list[k]) = c})

\* the same entries, label apart, in some order
SameEntries(before, after) ==
    /\ Len(after) = Len(before)
    /\ \A k \in 1..Len(before) :
          Count(after, Content(before[k])) = Count(before, Content(before[k]))

\* C20: add, remove and move leave the custom title, path, page count and
\* page range of every entry that stays in the registry as they were; a
\* rename changes custom titles only and a setPageRange page ranges only.
C20_FieldsTravelWithEntries ==
    [][/\ AddPdfs(RegistryAddInputs, MaxRegistryAppendices)
          => SubSeq(Contents(appendix_list'), 1, Len(appendix_list)) =
                Contents(appendix_list)
       /\ _remove_selected
          => LET kept == Unselected(appendix_list, curselection)
             IN  Contents(appendix_list') =
                    [k \in 1..Len(kept) |-> Content(At(appendix_list, kept[k]))]
       /\ (_move_up \/ _move_down) => SameEntries(appendix_list, appendix_list')
       /\ RenameAppendix(RegistryTitleInputs)
          => /\ Len(appendix_list') = Len(appendix_list)
             /\ \A k \in 1..Len(appendix_list) :
                   [appendix_list'[k] EXCEPT
                       !.custom_title = appendix_list[k].custom_title] =
                      appendix_list[k]
       /\ ConfigurePages(RegistryRangeInputs)
          => /\ Len(appendix_list') = Len(appendix_list)
             /\ \A k \in 1..Len(appendix_list) :
                   [appendix_list'[k] EXCEPT
                       !.page_range = appendix_list[k].page_range] =
                      appendix_list[k]]_vars

\* b.pdf, added second, renamed "T" and given the range "2", was moved to
\* the top with its title, file and range
C20_Witness ==
    /\ Len(appendix_list) = 2
    /\ Content(appendix_list[1]) =
          [custom_title |-> <<"T">>, path |-> "b.pdf", page_count |-> 2,
           page_range |-> Some(<<"2">>)]
    /\ appendix_list[2].custom_title = DefaultLabel(0)

(***************************************************************************)
(* Adding on its own: the window from start-up, with files added, selected *)
(* and removed, and every picked file readable with one or two pages or    *)
(* not readable.                                                           *)
(***************************************************************************)
\* what the Add dialog can return: up to MaxPicked files
AddDialogResults == ListsOf(AddFileReads, MaxPicked)

NextAdd ==
    \/ AddPdfs(AddDialogResults, MaxAddLen)
    \/ SelectEntry
    \/ _remove_selected

SpecAdd == Init /\ [][NextAdd]_vars

\* the files of file_reads that could be read, in the order given
Readable(file_reads) == SelectSeq(file_reads, LAMBDA f : f.pages # None)

\* the entry a readable file is to become when it is appended at the
\* zero-based position pos
AddedEntry(f, pos) ==
    [default_label |-> DefaultLabel(pos), custom_title |-> DefaultLabel(pos),
     path |-> f.path, page_count |-> f.pages[1], page_range |-> None]

\* C21: an add leaves the entries that were there as they were and in their
\* order, and puts after them one entry for each file that could be read,
\* in the order given, titled with the label of its position, with the
\* page count read and no page range; a file that cannot be read adds
\* nothing.
C21_AddAppendsReadableSources ==
    [][\A file_reads \in AddDialogResults :
          _add_pdfs(file_reads)
          => LET readable == Readable(file_reads)
                 n == Len(appendix_list)
             IN  /\ Len(appendix_list') = n + Len(readable)
                 /\ SubSeq(appendix_list', 1, n) = appendix_list
                 /\ \A k \in 1..Len(readable) :
                       appendix_list'[n + k] = AddedEntry(readable[k], n + k - 1)]_vars

\* a.pdf (two pages), a file that could not be read and b.pdf (one page)
\* were picked: the registry holds a.pdf and b.pdf as Appendix A and B
C21_Witness ==
    /\ Len(appendix_list) = 2
    /\ appendix_list[1] = AddedEntry([path |-> "a.pdf", pages |-> Some(2)], 0)
    /\ appendix_list[2] = AddedEntry([path |-> "b.pdf", pages |-> Some(1)], 1)
    /\ curselection = {1}

\* what the merge loop of thread t adds for the entry it is at: the title
\* page made for that position and the whole file of the entry
WholeFileAdded(t) ==
    LET i == thread[t].i
        entry == At(Iterated(t), i)
    IN  <<TitleSegment(At(thread[t].heading_pdf_paths, i)),
          DocumentSegment(entry.path)>>

\* C22: a page-range input that is empty or holds blanks only leaves the
\* addressed entry with no page range, whatever range it had; and the
\* merge, at an entry with no page range, adds after the title page the
\* whole file of the entry, never an empty selection of its pages.
C22_BlankRangeMeansAllPages ==
    [][/\ \A new_range_str \in RangeInputs :
             (/\ _configure_pages(new_range_str)
              /\ new_range_str # None
              /\ Blank(new_range_str[1])
              /\ Cardinality(curselection) = 1)
             => At(appendix_list', Addressed).page_range = None
       /\ \A t \in Threads :
             (/\ MergeAppendix(t)
              /\ thread[t].i < Len(Iterated(t))
              /\ At(Iterated(t), thread[t].i).page_range = None
              /\ thread'[t].pc = "merge")
             => thread'[t].writer = thread[t].writer \o WholeFileAdded(t)]_vars

\* a.pdf, listed with no page range, was written whole after its title page
C22_Witness ==
    \E t \in Threads :
       /\ thread[t].outcome = "success"
       /\ thread[t].output =
             Some(<<BaseSegment("report.docx"),
                    TitleSegment([title |-> DefaultLabel(0), path |-> "a.pdf"]),
                    DocumentSegment("a.pdf")>>)
       /\ Len(appendix_list) = 1
       /\ appendix_list[1].page_range = None

\* a title page of thread t is being made or was made
TitlePageBegun(t) ==
    \/ thread[t].heading_pdf_paths # <<>>
    \/ \E f \in thread[t].temp_files : f.name = "heading"

\* thread t has gone past the wait for the output location
PastHandshake(t) ==
    \/ thread[t].pc = "merge"
    \/ thread[t].writer # <<>>
    \/ thread[t].output # None
    \/ thread[t].outcome \in {"success", "cancelled"}
    \/ thread[t].error \in {"IndexError", "invalid page range", "read", "write"}

\* the steps of one assembly in their order: the base document is converted
\* before a title page is begun, the title-page loop has ended before the
\* output location is asked for, nothing is handed to the writer before a
\* non-empty location was supplied, and the worker is past the wait only
\* with an answer supplied
StepsInOrder ==
    \A t \in Threads :
       /\ TitlePageBegun(t) => thread[t].base # None
       /\ PromptRequested(t)
             => /\ thread[t].pc \in {"wait_save", "merge", "done"}
                /\ thread[t].base # None
       /\ (thread[t].writer # <<>> \/ thread[t].output # None)
             => /\ Len(thread[t].save_path_container) = 1
                /\ thread[t].save_path_container[1] # ""
       /\ PastHandshake(t) => thread[t].save_path_container # <<>>

\* the title page of every entry of list, in the order of the list
TitlePagesOf(list) ==
    [k \in 1..Len(list) |-> [title |-> list[k].custom_title, path |-> list[k].path]]

\* C23: within one assembly the base document is converted before any
\* title page is generated, the output location is asked for only once the
\* title page of every entry of the registry has been converted, in the
\* order of the registry, the output is written only after the interactive
\* thread supplied a non-empty location, and the worker never goes past the
\* wait for the location before an answer was supplied.
C23_StepsInOrder ==
    /\ []StepsInOrder
    /\ [][\A t \in Threads :
             (~PromptRequested(t) /\ PromptRequested(t)')
                => thread'[t].heading_pdf_paths = TitlePagesOf(appendix_list')]_vars

(***************************************************************************)
(* The page ranges and the assembly together: the application with the     *)
(* wider page-range inputs and a short registry.                           *)
(***************************************************************************)
NextRanged ==
    \/ AddPdfs(AddInputs, MaxRangedAppendices)
    \/ ConfigurePages(RegistryRangeInputs)
    \/ _start_generation_thread({1})
    \/ MainLoop
    \/ Worker

SpecRanged == Init /\ [][NextRanged]_vars

\* every title page of out is followed by the whole file or by a page
TitlePagesFollowedByPages(out) ==
    \A k \in 1..Len(out) :
       out[k].kind = "title"
          => /\ k < Len(out)
             /\ out[k + 1].kind \in {"doc", "page"}

\* C24: every page range the registry holds selects at least one page of
\* its entry, and in the output of a successful assembly every title page
\* is followed by at least one page of the file of its entry.
C24_StoredRangesSelectPages ==
    /\ \A k \in 1..Len(appendix_list) :
          appendix_list[k].page_range # None
             => LET pages == _parse_page_range(appendix_list[k].page_range,
                                               appendix_list[k].page_count)
                IN  pages # None /\ pages[1] # <<>>
    /\ \A t \in Threads :
          thread[t].outcome = "success"
             => TitlePagesFollowedByPages(thread[t].output[1])

====
